---- MODULE Spec2Model ----
(***************************************************************************)
(* Model of the word-placement engine of gen/word-search-gen.py:           *)
(* create_all_directions, populate_board, can_place_word, place_word and   *)
(* fill_empty_cells, run in the order main() calls them.                   *)
(*                                                                         *)
(* A word is a tuple of one-character strings.  The board is a list of     *)
(* rows indexed from 0, as in Python; a list index i of a list of length n *)
(* is served when -n <= i < n (negative indices count from the end) and    *)
(* raises IndexError otherwise.                                            *)
(***************************************************************************)
EXTENDS Integers, Sequences, FiniteSets, TLC

\* ------------------------------------------------------------------ bounds
\* Longest vocabulary handed to populate_board.
MaxWords == 2
\* random.randint(a, b) is sampled at a .. a + MaxRandOffset and at b.
MaxRandOffset == 0
\* Board sizes explored.  The pool of a board of size n has (n-1)^2 positions
\* and random.shuffle can leave it in any of ((n-1)^2)! orders.
BoardSizes == 1 .. 3
\* Words the vocabularies are drawn from: two that can cross, one that spans
\* the diagonal of the largest board, one too long for every board.
Words == { <<"A", "B">>, <<"B", "A">>, <<"C", "A", "B">>, <<"A", "B", "C", "D">> }

\* ------------------------------------------------------- Python primitives
None == "None"

\* chr() on the code points around the capital letters.
chr(cp) ==
  CASE cp = 64 -> "@" [] cp = 65 -> "A" [] cp = 66 -> "B" [] cp = 67 -> "C"
    [] cp = 68 -> "D" [] cp = 69 -> "E" [] cp = 70 -> "F" [] cp = 71 -> "G"
    [] cp = 72 -> "H" [] cp = 73 -> "I" [] cp = 74 -> "J" [] cp = 75 -> "K"
    [] cp = 76 -> "L" [] cp = 77 -> "M" [] cp = 78 -> "N" [] cp = 79 -> "O"
    [] cp = 80 -> "P" [] cp = 81 -> "Q" [] cp = 82 -> "R" [] cp = 83 -> "S"
    [] cp = 84 -> "T" [] cp = 85 -> "U" [] cp = 86 -> "V" [] cp = 87 -> "W"
    [] cp = 88 -> "X" [] cp = 89 -> "Y" [] cp = 90 -> "Z" [] cp = 91 -> "["
    [] OTHER -> "?"

\* ord('A') and ord('Z').
start_codepoint == 65
end_codepoint == 90

\* The outcomes of random.randint(a, b) that are explored: a <= n <= b.
randint(a, b) == { n \in a .. b : n <= a + MaxRandOffset \/ n = b }

\* A max() that returns its first argument.
max_mutant(a, b) == a

\* max(a, b) of two integers.
max(a, b) == IF a >= b THEN a ELSE b

\* range(a, b) as a list.
range(a, b) == [ i \in 1 .. (IF b > a THEN b - a ELSE 0) |-> a + i - 1 ]

\* itertools.product(xs, ys) as a list: the last index varies fastest.
product(xs, ys) ==
  [ k \in 1 .. Len(xs) * Len(ys) |->
      << xs[((k - 1) \div Len(ys)) + 1], ys[((k - 1) % Len(ys)) + 1] >> ]

\* The orders random.shuffle can leave a list in: every arrangement of its
\* elements.
shuffle(s) ==
  { [ i \in 1 .. Len(s) |-> s[f[i]] ] : f \in Permutations(1 .. Len(s)) }

\* A pop() that reads the last element and leaves it in the list.
pop_mutant(l) == [ value |-> l[Len(l)], rest |-> l ]

\* list.pop(): the last element, and the list without it.
pop(l) == [ value |-> l[Len(l)], rest |-> SubSeq(l, 1, Len(l) - 1) ]

\* A clear() that leaves the list as it is.
clear_mutant(l) == l

\* list.clear()
clear(l) == << >>

\* Is index i served by a list of length n?
Indexable(n, i) == -n <= i /\ i < n
\* The element a served index refers to.
PyIndex(n, i) == IF i < 0 THEN i + n ELSE i

\* ------------------------------------------------------------ the functions
init_board(n) == [ r \in 0 .. n - 1 |-> [ c \in 0 .. n - 1 |-> None ] ]

create_all_directions ==
  SelectSeq(product(<< -1, 0, 1 >>, << -1, 0, 1 >>),
            LAMBDA direction : direction[1] # 0 /\ direction[2] # 0)

\* The pool over the whole grid: product(range(0, n), range(0, n)).
initial_positions_mutant(n) == product(range(0, n), range(0, n))

\* product(range(0, board_size - 1), range(0, board_size - 1))
initial_positions(n) == product(range(0, n - 1), range(0, n - 1))

\* A range test that lets row and column board_size through.
out_of_range_mutant(r, c, n) == r < 0 \/ r > n \/ c < 0 \/ c > n

\* The range test of can_place_word.
out_of_range(r, c, n) == r < 0 \/ r >= n \/ c < 0 \/ c >= n

\* A conflict test that finds no conflict.
conflict_mutant(cell, char) == FALSE

\* The conflict test of can_place_word.
conflict(cell, char) == cell \notin { None, char }

\* can_place_word from character i on.  ret is the value returned, raised
\* tells that board[r][c] raised IndexError instead, refs are the index pairs
\* board[r][c] was evaluated at.
RECURSIVE can_place_from(_, _, _, _, _, _)
can_place_from(b, n, w, position, direction, i) ==
  IF i > Len(w) THEN [ ret |-> TRUE, raised |-> FALSE, refs |-> {} ]
  ELSE
    LET r == position[1] + (i - 1) * direction[1]
        c == position[2] + (i - 1) * direction[2]
    IN  IF out_of_range(r, c, n)
        THEN [ ret |-> FALSE, raised |-> FALSE, refs |-> {} ]
        ELSE IF ~ (Indexable(n, r) /\ Indexable(n, c))
        THEN [ ret |-> FALSE, raised |-> TRUE, refs |-> { << r, c >> } ]
        ELSE IF conflict(b[PyIndex(n, r)][PyIndex(n, c)], w[i])
        THEN [ ret |-> FALSE, raised |-> FALSE, refs |-> { << r, c >> } ]
        ELSE LET rest == can_place_from(b, n, w, position, direction, i + 1)
             IN  [ rest EXCEPT !.refs = @ \cup { << r, c >> } ]

can_place_word(b, n, w, position, direction) ==
  can_place_from(b, n, w, position, direction, 1)

\* place_word from character i on.  board is the board as the writes made so
\* far leave it.
RECURSIVE place_from(_, _, _, _, _, _)
place_from(b, n, w, position, direction, i) ==
  IF i > Len(w) THEN [ board |-> b, raised |-> FALSE, refs |-> {} ]
  ELSE
    LET r == position[1] + (i - 1) * direction[1]
        c == position[2] + (i - 1) * direction[2]
    IN  IF ~ (Indexable(n, r) /\ Indexable(n, c))
        THEN [ board |-> b, raised |-> TRUE, refs |-> { << r, c >> } ]
        ELSE LET rest == place_from(
                           [ b EXCEPT ![PyIndex(n, r)][PyIndex(n, c)] = w[i] ],
                           n, w, position, direction, i + 1)
             IN  [ rest EXCEPT !.refs = @ \cup { << r, c >> } ]

\* A place_word that writes one step further along the direction.
place_word_mutant(b, n, w, position, direction) ==
  place_from(b, n, w,
             << position[1] + direction[1], position[2] + direction[2] >>,
             direction, 1)

place_word(b, n, w, position, direction) ==
  place_from(b, n, w, position, direction, 1)

\* A while body that appends the word to words after a failed trial too.
while_body_mutant(loc, n, direction) ==
  LET pos == pop(loc.positions).value
      popped == [ loc EXCEPT !.positions = pop(@).rest,
                             !.pop_positions = Append(@, pos),
                             !.position = pos ]
      can == can_place_word(loc.board, n, loc.word, pos, direction)
      appended == [ popped EXCEPT !.words = Append(@, loc.word) ]
  IN  IF can.raised
      THEN [ loc |-> popped, raised |-> TRUE, refs |-> can.refs, wrote |-> FALSE,
             can |-> can ]
      ELSE IF ~ can.ret
      THEN [ loc |-> appended, raised |-> FALSE, refs |-> can.refs, wrote |-> FALSE,
             can |-> can ]
      ELSE
        LET put == place_word(loc.board, n, loc.word, pos, direction)
        IN  IF put.raised
            THEN [ loc |-> [ popped EXCEPT !.board = put.board ], raised |-> TRUE,
                   refs |-> can.refs \cup put.refs, wrote |-> TRUE, can |-> can ]
            ELSE [ loc |-> [ appended EXCEPT
                               !.board = put.board,
                               !.max_length = max(Len(loc.word), @),
                               !.placed = TRUE ],
                   raised |-> FALSE, refs |-> can.refs \cup put.refs, wrote |-> TRUE,
                   can |-> can ]

\* One iteration of the while loop on the locals loc with the direction drawn:
\* the locals after it, whether IndexError was raised, the index pairs
\* board[r][c] was evaluated at, whether place_word was called, and what
\* can_place_word returned.
while_body(loc, n, direction) ==
  LET pos == pop(loc.positions).value
      popped == [ loc EXCEPT !.positions = pop(@).rest,
                             !.pop_positions = Append(@, pos),
                             !.position = pos ]
      can == can_place_word(loc.board, n, loc.word, pos, direction)
  IN  IF can.raised
      THEN [ loc |-> popped, raised |-> TRUE, refs |-> can.refs, wrote |-> FALSE,
             can |-> can ]
      ELSE IF ~ can.ret
      THEN [ loc |-> popped, raised |-> FALSE, refs |-> can.refs, wrote |-> FALSE,
             can |-> can ]
      ELSE
        LET put == place_word(loc.board, n, loc.word, pos, direction)
        IN  IF put.raised
            THEN [ loc |-> [ popped EXCEPT !.board = put.board ], raised |-> TRUE,
                   refs |-> can.refs \cup put.refs, wrote |-> TRUE, can |-> can ]
            ELSE [ loc |-> [ popped EXCEPT
                               !.board = put.board,
                               !.words = Append(@, loc.word),
                               !.max_length = max(Len(loc.word), @),
                               !.placed = TRUE ],
                   raised |-> FALSE, refs |-> can.refs \cup put.refs, wrote |-> TRUE,
                   can |-> can ]

\* ------------------------------------------------------------------- state
VARIABLES
  board_size,     \* main: board_size
  vocabulary,     \* main: vocabulary, the list populate_board iterates
  directions,     \* main: directions
  board,          \* main: board
  positions,      \* populate_board: positions
  pop_positions,  \* populate_board: pop_positions
  words,          \* populate_board: words, then main: words
  max_length,     \* populate_board: max_length, then main: max_length
  next_word,      \* populate_board: index of the next word of the for loop
  word,           \* populate_board: word
  placed,         \* populate_board: placed
  position,       \* populate_board: position
  direction,      \* populate_board: direction
  fill_row,       \* fill_empty_cells: row
  fill_col,       \* fill_empty_cells: col
  pc,             \* where control is
  placements,     \* history: the (word, position, direction) of every place_word call
  refs,           \* history: the index pairs the last trial evaluated board[r][c] at
  attempt,        \* history: board, words, max_length when the word's attempt began
  trials,         \* history: trials made in the word's attempt
  populated,      \* history: the board as populate_board returned it
  can_place       \* history: what the last can_place_word call returned

vars == << board_size, vocabulary, directions, board, positions, pop_positions,
           words, max_length, next_word, word, placed, position, direction,
           fill_row, fill_col, pc, placements, refs, attempt, trials, populated,
           can_place >>

\* Lists of distinct words, as list(set(...)) yields, of length <= longest.
Vocabularies(longest) ==
  UNION { { v \in [ 1 .. k -> Words ] : \A i, j \in 1 .. k : v[i] = v[j] => i = j }
          : k \in 0 .. longest }

\* A local that is not bound yet, or no longer.
Unbound == << >>

NoAttempt == [ board |-> << >>, words |-> << >>, max_length |-> 0 ]
NoCall == [ ret |-> FALSE, raised |-> FALSE ]

\* main up to the first iteration of populate_board's for loop, on a
\* vocabulary of at most longest words.
Start(longest) ==
  /\ board_size \in BoardSizes
  /\ vocabulary \in Vocabularies(longest)
  /\ directions = create_all_directions
  /\ board = init_board(board_size)
  /\ positions = initial_positions(board_size)
  /\ pop_positions = << >>
  /\ words = << >>
  /\ max_length = 0
  /\ next_word = 1
  /\ word = Unbound
  /\ placed = FALSE
  /\ position = Unbound
  /\ direction = Unbound
  /\ fill_row = 0
  /\ fill_col = 0
  /\ pc = "for"
  /\ placements = << >>
  /\ refs = {}
  /\ attempt = NoAttempt
  /\ trials = 0
  /\ populated = << >>
  /\ can_place = NoCall

Init == Start(MaxWords)

\* The head of the for loop with a word left: merge, clear, shuffle.
ForWord ==
  /\ pc = "for"
  /\ next_word <= Len(vocabulary)
  /\ word' = vocabulary[next_word]
  /\ next_word' = next_word + 1
  /\ positions' \in shuffle(positions \o pop_positions)
  /\ pop_positions' = clear(pop_positions)
  /\ placed' = FALSE
  /\ pc' = "while"
  /\ attempt' = [ board |-> board, words |-> words, max_length |-> max_length ]
  /\ trials' = 0
  /\ refs' = {}
  /\ UNCHANGED << board_size, vocabulary, directions, board, words, max_length,
                  position, direction, fill_row, fill_col, placements, populated,
                  can_place >>

\* The while loop's condition holds: one trial.
Trial ==
  /\ pc = "while"
  /\ ~ placed /\ Len(positions) # 0
  /\ \E k \in 1 .. Len(directions) :
     /\ direction' = directions[k]
     /\ \E res \in { while_body([ board |-> board, positions |-> positions,
                               pop_positions |-> pop_positions, words |-> words,
                               max_length |-> max_length, placed |-> placed,
                               position |-> position, word |-> word ],
                             board_size, directions[k]) } :
           /\ board' = res.loc.board
           /\ positions' = res.loc.positions
           /\ pop_positions' = res.loc.pop_positions
           /\ words' = res.loc.words
           /\ max_length' = res.loc.max_length
           /\ placed' = res.loc.placed
           /\ position' = res.loc.position
           /\ can_place' = [ ret |-> res.can.ret, raised |-> res.can.raised ]
           /\ pc' = IF res.raised THEN "raised" ELSE "while"
           /\ refs' = res.refs
           /\ placements' = IF res.wrote
                            THEN Append(placements,
                                        [ word |-> word, position |-> res.loc.position,
                                          direction |-> directions[k] ])
                            ELSE placements
  /\ trials' = trials + 1
  /\ UNCHANGED << board_size, vocabulary, directions, next_word, word, fill_row,
                  fill_col, attempt, populated >>

\* The while loop's condition fails: back to the head of the for loop.
EndAttempt ==
  /\ pc = "while"
  /\ ~ (~ placed /\ Len(positions) # 0)
  /\ pc' = "for"
  /\ UNCHANGED << board_size, vocabulary, directions, board, positions,
                  pop_positions, words, max_length, next_word, word, placed,
                  position, direction, fill_row, fill_col, placements, refs,
                  attempt, trials, populated, can_place >>

\* The vocabulary is used up: populate_board returns (words, max_length), its
\* other locals are gone, and main calls fill_empty_cells.
Return ==
  /\ pc = "for"
  /\ next_word > Len(vocabulary)
  /\ positions' = << >>
  /\ pop_positions' = << >>
  /\ word' = Unbound
  /\ placed' = FALSE
  /\ position' = Unbound
  /\ direction' = Unbound
  /\ can_place' = NoCall
  /\ refs' = {}
  /\ attempt' = NoAttempt
  /\ trials' = 0
  /\ populated' = board
  /\ fill_row' = 0
  /\ fill_col' = 0
  /\ pc' = IF board_size > 0 THEN "fill" ELSE "done"
  /\ UNCHANGED << board_size, vocabulary, directions, board, words, max_length,
                  next_word, placements >>

\* A draw that reaches one code point past end_codepoint.
fill_letters_mutant == { chr(n) : n \in randint(start_codepoint, end_codepoint + 1) }

\* The letters fill_empty_cells draws from.
fill_letters == { chr(n) : n \in randint(start_codepoint, end_codepoint) }

\* The cells fill_empty_cells writes.
to_fill(cell) == cell = None

\* One iteration of the inner loop of fill_empty_cells.
FillCell ==
  /\ pc = "fill"
  /\ IF to_fill(board[fill_row][fill_col])
     THEN \E letter \in fill_letters :
            board' = [ board EXCEPT ![fill_row][fill_col] = letter ]
     ELSE board' = board
  /\ IF fill_col + 1 < board_size
     THEN fill_col' = fill_col + 1 /\ fill_row' = fill_row /\ pc' = "fill"
     ELSE /\ fill_col' = 0
          /\ fill_row' = fill_row + 1
          /\ pc' = IF fill_row + 1 < board_size THEN "fill" ELSE "done"
  /\ UNCHANGED << board_size, vocabulary, directions, positions, pop_positions,
                  words, max_length, next_word, word, placed, position, direction,
                  placements, refs, attempt, trials, populated, can_place >>

Next == ForWord \/ Trial \/ EndAttempt \/ Return \/ FillCell

Spec == Init /\ [][Next]_vars

\* ------------------------------------------------- can_place_word by itself
\* Letters of the boards can_place_word is called on.
MaxLetters == 2
Letters == { "A", "B", "C" }

\* The boards of size n with at most MaxLetters letters on them.
SparseBoards(n) ==
  LET G == (0 .. n - 1) \X (0 .. n - 1)
  IN  UNION { { [ r \in 0 .. n - 1 |->
                    [ c \in 0 .. n - 1 |->
                        IF << r, c >> \in S THEN f[<< r, c >>] ELSE None ] ]
                : f \in [ S -> Letters ] }
              : S \in { T \in SUBSET G : Cardinality(T) <= MaxLetters } }

\* A board, before a call of can_place_word on it.
InitCall ==
  /\ board_size \in BoardSizes
  /\ board \in SparseBoards(board_size)
  /\ vocabulary = << >>
  /\ directions = create_all_directions
  /\ positions = << >>
  /\ pop_positions = << >>
  /\ words = << >>
  /\ max_length = 0
  /\ next_word = 1
  /\ word = Unbound
  /\ placed = FALSE
  /\ position = Unbound
  /\ direction = Unbound
  /\ fill_row = 0
  /\ fill_col = 0
  /\ pc = "call"
  /\ placements = << >>
  /\ refs = {}
  /\ attempt = NoAttempt
  /\ trials = 0
  /\ populated = << >>
  /\ can_place = NoCall

\* can_place_word(board, board_size, word, position, direction) for a word, a
\* start position in or next to the grid and one of the 8 directions.
CallCanPlace ==
  /\ pc = "call"
  /\ \E w \in Words : \E r, c \in -1 .. board_size :
     \E d \in ((-1 .. 1) \X (-1 .. 1)) \ { << 0, 0 >> } :
       LET res == can_place_word(board, board_size, w, << r, c >>, d)
       IN  /\ word' = w
           /\ position' = << r, c >>
           /\ direction' = d
           /\ can_place' = [ ret |-> res.ret, raised |-> res.raised ]
           /\ refs' = res.refs
  /\ pc' = "called"
  /\ UNCHANGED << board_size, vocabulary, directions, board, positions,
                  pop_positions, words, max_length, next_word, placed, fill_row,
                  fill_col, placements, attempt, trials, populated >>

CanPlaceSpec == InitCall /\ [][CallCanPlace]_vars

\* populate_board alone: main stops when it has returned.
NextPopulate == ForWord \/ Trial \/ EndAttempt \/ Return

\* Longest vocabulary populate_board is followed to its return on.
MaxLoopWords == 1

InitPopulate == Start(MaxLoopWords)

\* populate_board keeps running while it has a step to take.
PopulateSpec == InitPopulate /\ [][NextPopulate]_vars /\ WF_vars(NextPopulate)

\* ------------------------------------------------------------- properties
Range(s) == { s[i] : i \in 1 .. Len(s) }

Grid == (0 .. board_size - 1) \X (0 .. board_size - 1)

\* The cell character i (from 1) of a word lands on.
CellAt(pos, dir, i) == << pos[1] + (i - 1) * dir[1], pos[2] + (i - 1) * dir[2] >>

AllDirections == ((-1 .. 1) \X (-1 .. 1)) \ { << 0, 0 >> }

Uppercase == { "A", "B", "C", "D", "E", "F", "G", "H", "I", "J", "K", "L", "M",
               "N", "O", "P", "Q", "R", "S", "T", "U", "V", "W", "X", "Y", "Z" }

Returned == pc \in { "fill", "done" }

\* C1: create_all_directions returns exactly the 8 non-zero vectors (dr, dc)
\* with dr, dc in {-1, 0, 1}, each once.
C1_EightDirections ==
  /\ Range(directions) = AllDirections
  /\ Len(directions) = 8

\* What the code returns instead: the four diagonal directions, each once.
C1_Diagonals ==
  /\ Range(directions) = { d \in AllDirections : d[1] # 0 /\ d[2] # 0 }
  /\ Len(directions) = 4

\* C2: a call of can_place_word raises nothing and returns true exactly when
\* every character's cell lies inside the grid and is empty or already holds
\* that character.
C2_CanPlaceContract ==
  pc = "called" =>
    /\ ~ can_place.raised
    /\ can_place.ret <=>
         \A i \in 1 .. Len(word) :
           /\ CellAt(position, direction, i) \in Grid
           /\ board[CellAt(position, direction, i)[1]][CellAt(position, direction, i)[2]]
                \in { None, word[i] }

\* A call that succeeds by sharing a letter of the board along a row.
C2_Witness ==
  /\ pc = "called"
  /\ can_place.ret
  /\ direction = << 0, 1 >>
  /\ \E i \in 1 .. Len(word) :
       board[CellAt(position, direction, i)[1]][CellAt(position, direction, i)[2]]
         = word[i]

\* C3: a cell that holds a letter holds the same letter after every step of
\* the run.
C3_LettersKept ==
  [][ \A cell \in Grid :
        board[cell[1]][cell[2]] # None =>
          board'[cell[1]][cell[2]] = board[cell[1]][cell[2]] ]_vars

\* The last trial placed its word over a letter an earlier word had written.
C3_Witness ==
  /\ pc = "while"
  /\ placed
  /\ \E i \in 1 .. Len(word) :
       LET cell == CellAt(position, direction, i)
       IN  attempt.board[cell[1]][cell[2]] = word[i]

\* C4: once populate_board has returned, during and after the fill, the k-th
\* placed word reads in the grid from the position and along the direction of
\* the k-th place_word call, inside the grid; and no trial ever indexes the
\* board outside the grid.
C4_PlacedWordsReadable ==
  /\ refs \subseteq Grid
  /\ Returned =>
       /\ Len(words) = Len(placements)
       /\ \A k \in 1 .. Len(placements) :
            /\ words[k] = placements[k].word
            /\ \A i \in 1 .. Len(words[k]) :
                 LET cell == CellAt(placements[k].position, placements[k].direction, i)
                 IN  /\ cell \in Grid
                     /\ board[cell[1]][cell[2]] = words[k][i]

\* The run is over with two different words placed across a common cell.
C4_Witness ==
  /\ pc = "done"
  /\ Len(placements) = 2
  /\ \E i \in 1 .. Len(words[1]) : \E j \in 1 .. Len(words[2]) :
       CellAt(placements[1].position, placements[1].direction, i)
         = CellAt(placements[2].position, placements[2].direction, j)

\* C5: after fill_empty_cells every cell holds one uppercase letter, and the
\* cells populate_board left non-empty hold the letter they held.
C5_BoardFilled ==
  pc = "done" =>
    \A cell \in Grid :
      /\ board[cell[1]][cell[2]] \in Uppercase
      /\ populated[cell[1]][cell[2]] # None =>
           board[cell[1]][cell[2]] = populated[cell[1]][cell[2]]

\* The fill is over on a board that had both letters and empty cells.
C5_Witness ==
  /\ pc = "done"
  /\ \E cell \in Grid : populated[cell[1]][cell[2]] # None
  /\ \E cell \in Grid : populated[cell[1]][cell[2]] = None

\* C6: the max_length populate_board returns is the greatest length of a
\* word of the list it returns, 0 for the empty list.
C6_MaxLength ==
  Returned =>
    /\ \A k \in 1 .. Len(words) : Len(words[k]) <= max_length
    /\ IF Len(words) = 0
       THEN max_length = 0
       ELSE \E k \in 1 .. Len(words) : Len(words[k]) = max_length

\* populate_board has returned a word after it had tried and dropped a
\* longer one.
C6_Witness ==
  /\ Returned
  /\ Len(words) = 1
  /\ Len(vocabulary) = 2
  /\ vocabulary[1] \notin Range(words)
  /\ Len(vocabulary[1]) > max_length

JustDropped == pc = "for" /\ next_word > 1 /\ ~ placed

C9_PoolRestored ==
  (pc = "while" /\ trials = 0) =>
    /\ pop_positions = << >>
    /\ Len(positions) = Len(initial_positions(board_size))
    /\ Range(positions) = Range(initial_positions(board_size))
    /\ \A i, j \in 1 .. Len(positions) : positions[i] = positions[j] => i = j

\* The second word's attempt starts after the first word was dropped with the
\* whole pool popped.
C9_Witness ==
  /\ pc = "while"
  /\ trials = 0
  /\ next_word = 3
  /\ Len(words) = 0
  /\ Len(positions) = 4

\* C10: every position of the pool, every position tried and every position
\* a word was placed at has row and column in 0 .. board_size - 2.
C10_StartsOffLastRowCol ==
  LET Starts == (0 .. board_size - 2) \X (0 .. board_size - 2)
  IN  /\ Range(positions) \subseteq Starts
      /\ Range(pop_positions) \subseteq Starts
      /\ position # Unbound => position \in Starts
      /\ \A k \in 1 .. Len(placements) : placements[k].position \in Starts

\* A placed word occupies a cell of the last row or column.
C10_Witness ==
  /\ pc = "while"
  /\ placed
  /\ \E i \in 1 .. Len(word) :
       LET cell == CellAt(position, direction, i)
       IN  cell[1] = board_size - 1 \/ cell[2] = board_size - 1

====
